---- MODULE Spec2Model ----
(***************************************************************************)
(* Vendor Master Dashboard (supply_vendor_dashboard.py).                   *)
(*                                                                         *)
(* The script is re-run from top to bottom after every user interaction.   *)
(* One action of the dashboard specification is one interaction together   *)
(* with the whole script run it triggers.  Text is a sequence of           *)
(* one-character strings, so that str(), substring search, sorting and     *)
(* joining are computed and not assumed.                                   *)
(***************************************************************************)
EXTENDS Integers, Sequences, FiniteSets, TLC

VARIABLES
    uploaded_file,            \* the name of the uploader's file, or NoFile
    df,                       \* the table load_vendor_data returned (cached)
    selected_vendor,          \* value of the "Vendor" selectbox
    show_advanced,            \* value of the "Advanced filters" toggle
    text_input,               \* what the search box holds
    capacity_select,          \* what the "Serving capacity" selectbox holds
    status,                   \* how the last script run ended
    ui,                       \* the st.* elements the last run emitted, in order
    vendor_list,              \* line 188
    serving_caps_raw,         \* lines 208-215
    search_query,             \* lines 200 / 224
    serving_capacity_option,  \* lines 216 / 222 / 225
    results_df,               \* lines 235-254: index labels of the retained rows
    cards,                    \* the records handed to the renderers, in order
    row,                      \* the row last handed to extract_vendor_info
    info                      \* what extract_vendor_info made of it

vars == <<uploaded_file, df, selected_vendor, show_advanced, text_input,
          capacity_select, status, ui, vendor_list, serving_caps_raw,
          search_query, serving_capacity_option, results_df, cards, row, info>>

(***************************************************************************)
(* Bounds.                                                                 *)
(***************************************************************************)
MaxRows == 2
MaxPresent == 3

(***************************************************************************)
(* Column names, lines 7-24.                                               *)
(***************************************************************************)
VENDOR_CODE_COL == "Vendor Code"
VENDOR_NAME_COL == "Vendor Name"
NAME_COL == "Name"
EMAIL_COL == "Email"
PHONE_COL == "Phone Number"
CATEGORY_COL == "Category"
CUISINE_1_COL == "Cuisine type 1"
CUISINE_2_COL == "Cuisine Type 2"
SERVICE_MODEL_COL == "Service Model"
SERVING_CAP_COL == "Serving Capacity"
STATE_COL == "State"
CITY_COL == "City"
AREA_COL == "Area"
OTHER_CITY_COL == "Other City 1"
AREA_1_COL == "Area 1"
CERT_1_COL == "Certification 1"
CERT_2_COL == "Certification 2"
CERT_3_COL == "Certification 3"

SchemaCols ==
    {VENDOR_CODE_COL, VENDOR_NAME_COL, NAME_COL, EMAIL_COL, PHONE_COL,
     CATEGORY_COL, CUISINE_1_COL, CUISINE_2_COL, SERVICE_MODEL_COL,
     SERVING_CAP_COL, STATE_COL, CITY_COL, AREA_COL, OTHER_CITY_COL,
     AREA_1_COL, CERT_1_COL, CERT_2_COL, CERT_3_COL}

LocationCols == <<AREA_COL, AREA_1_COL, CITY_COL, OTHER_CITY_COL, STATE_COL>>

(***************************************************************************)
(* Cell values: missing (NaN), a Python str, an int, or a float holding a  *)
(* whole number.  One record shape for all four.                           *)
(***************************************************************************)
NaN == [k |-> "nan", s |-> <<>>, n |-> 0]
Text(s) == [k |-> "str", s |-> s, n |-> 0]
Whole(n) == [k |-> "int", s |-> <<>>, n |-> n]
Real(n) == [k |-> "float", s |-> <<>>, n |-> n]

Dash == Text(<<"-">>)
Empty == Text(<<>>)

Digit(d) ==
    CASE d = 0 -> "0" [] d = 1 -> "1" [] d = 2 -> "2" [] d = 3 -> "3"
      [] d = 4 -> "4" [] d = 5 -> "5" [] d = 6 -> "6" [] d = 7 -> "7"
      [] d = 8 -> "8" [] d = 9 -> "9"

RECURSIVE IntStr(_)
IntStr(n) == IF n < 10 THEN <<Digit(n)>>
             ELSE IntStr(n \div 10) \o <<Digit(n % 10)>>

\* str(v), and Series.astype(str) cell by cell: a missing cell becomes the
\* text "nan", a whole float keeps its ".0".
str(v) ==
    CASE v.k = "str" -> v.s
      [] v.k = "int" -> IntStr(v.n)
      [] v.k = "float" -> IntStr(v.n) \o <<".", "0">>
      [] v.k = "nan" -> <<"n", "a", "n">>

notna(v) == v.k # "nan"

RECURSIVE Join(_, _)
Join(sep, parts) ==
    IF parts = <<>> THEN <<>>
    ELSE IF Len(parts) = 1 THEN parts[1]
    ELSE parts[1] \o sep \o Join(sep, Tail(parts))

(***************************************************************************)
(* safe_get, lines 68-71.  A row is a function from its columns to cells.  *)
(***************************************************************************)
safe_get(r, col, default) ==
    IF col \in DOMAIN r /\ notna(r[col]) THEN r[col] ELSE default

(***************************************************************************)
(* extract_vendor_info, lines 74-110.                                      *)
(***************************************************************************)
RECURSIVE location_parts_of(_, _)
location_parts_of(r, cols) ==
    IF cols = <<>> THEN <<>>
    ELSE (IF Head(cols) \in DOMAIN r /\ notna(r[Head(cols)])
          THEN <<str(r[Head(cols)])>> ELSE <<>>)
         \o location_parts_of(r, Tail(cols))

location_of(r) ==
    LET location_parts == location_parts_of(r, LocationCols)
    IN  IF location_parts # <<>> THEN Text(Join(<<",", " ">>, location_parts))
        ELSE Dash

\* [c for c in (cuisine1, cuisine2) if c not in ["", "-"]]
cuisine_parts_of(r) ==
    LET cuisine1 == safe_get(r, CUISINE_1_COL, Empty)
        cuisine2 == safe_get(r, CUISINE_2_COL, Empty)
    IN  SelectSeq(<<cuisine1, cuisine2>>, LAMBDA c : c \notin {Empty, Dash})

\* " / ".join(...) raises TypeError on an item that is not a str.
JoinRaises(parts) == \E i \in 1..Len(parts) : parts[i].k # "str"

NoRow == <<>>
NoInfo == [raised |-> "none", fields |-> <<>>]

extract_vendor_info(r) ==
    LET cuisine_parts == cuisine_parts_of(r)
    IN  IF JoinRaises(cuisine_parts)
        THEN [raised |-> "TypeError", fields |-> <<>>]
        ELSE [raised |-> "no",
              fields |->
                [vendor_code |-> safe_get(r, VENDOR_CODE_COL, Dash),
                 vendor_name |-> safe_get(r, VENDOR_NAME_COL, Dash),
                 owner_name |-> safe_get(r, NAME_COL, Dash),
                 phone |-> safe_get(r, PHONE_COL, Dash),
                 email |-> safe_get(r, EMAIL_COL, Dash),
                 location |-> location_of(r),
                 category |-> safe_get(r, CATEGORY_COL, Dash),
                 cuisine_text |->
                    IF cuisine_parts # <<>>
                    THEN Text(Join(<<" ", "/", " ">>,
                                  [i \in 1..Len(cuisine_parts) |-> cuisine_parts[i].s]))
                    ELSE Dash,
                 service_model |-> safe_get(r, SERVICE_MODEL_COL, Dash),
                 serving_capacity |-> safe_get(r, SERVING_CAP_COL, Dash)]]

(***************************************************************************)
(* Text order and sorted(): Python orders str by code point.               *)
(***************************************************************************)
CharCode(c) ==
    CASE c = "(" -> 40 [] c = "-" -> 45 [] c = "." -> 46
      [] c = "0" -> 48 [] c = "1" -> 49 [] c = "2" -> 50 [] c = "3" -> 51
      [] c = "4" -> 52 [] c = "5" -> 53 [] c = "6" -> 54 [] c = "7" -> 55
      [] c = "8" -> 56 [] c = "9" -> 57
      [] c = "A" -> 65 [] c = "B" -> 66
      [] c = "a" -> 97 [] c = "b" -> 98 [] c = "n" -> 110

RECURSIVE TextLess(_, _)
TextLess(s, t) ==
    IF t = <<>> THEN FALSE
    ELSE IF s = <<>> THEN TRUE
    ELSE IF CharCode(Head(s)) # CharCode(Head(t))
         THEN CharCode(Head(s)) < CharCode(Head(t))
    ELSE TextLess(Tail(s), Tail(t))

RECURSIVE sorted(_)
sorted(S) ==
    IF S = {} THEN <<>>
    ELSE LET least == CHOOSE s \in S : \A t \in S \ {s} : TextLess(s, t)
         IN  <<least>> \o sorted(S \ {least})

Range(f) == {f[i] : i \in DOMAIN f}

(***************************************************************************)
(* The uploaded file and load_vendor_data, lines 38-63.                    *)
(* A file has a name (its extension), headers as written (a name with      *)
(* blanks around it or not) and rows of raw cells.  The parsers type each  *)
(* column: in a CSV column that holds any text every cell is text; a       *)
(* column of numbers with a hole is float64; a column of a table with no   *)
(* rows is object.                                                         *)
(***************************************************************************)
NoFile == "none"
NoTable == [columns |-> {}, rows |-> <<>>]

ColumnCells(rows, col) == {rows[i][col] : i \in 1..Len(rows)}

HasText(rows, col) == \E v \in ColumnCells(rows, col) : v.k = "str"

ParseCell(ext, rows, col, v) ==
    IF v.k # "int" THEN v
    ELSE IF HasText(rows, col)
         THEN (IF ext = "csv" THEN Text(IntStr(v.n)) ELSE v)
    ELSE IF NaN \in ColumnCells(rows, col) THEN Real(v.n)
    ELSE v

\* The header a column has in the raw file, and str.strip() of it.
RawHeader(f, col) == IF f.padded THEN <<" ", col, " ">> ELSE <<col>>

RECURSIVE strip(_)
strip(h) ==
    IF h = <<>> THEN h
    ELSE IF Head(h) = " " THEN strip(Tail(h))
    ELSE IF h[Len(h)] = " " THEN strip(SubSeq(h, 1, Len(h) - 1))
    ELSE h

columns_after_strip(f) == {strip(RawHeader(f, c))[1] : c \in f.columns}

load_vendor_data(f) ==
    [columns |-> columns_after_strip(f),
     rows |-> [i \in 1..Len(f.rows) |->
                 [c \in f.columns |-> ParseCell(f.ext, f.rows, c, f.rows[i][c])]]]

\* Which way the load ends: a CSV parses; a spreadsheet needs openpyxl,
\* whose absence is the ImportError of line 52; openpyxl does not read .xls
\* and that error is not caught.
LoadOutcomes(f) ==
    IF f.ext = "csv" THEN {"ok"}
    ELSE IF f.ext = "xlsx" THEN {"ok", "ImportError"}
    ELSE {"ImportError", "ParseError"}

dtype(d, col) ==
    IF Len(d.rows) = 0 \/ HasText(d.rows, col) THEN "object"
    ELSE IF \E v \in ColumnCells(d.rows, col) : v.k # "int" THEN "float64"
    ELSE "int64"

(***************************************************************************)
(* Series.str.contains(pat, case=False, na=False), lines 243-247: pat is   *)
(* a regular expression.  Of the regex syntax the model has the literal    *)
(* character, "." (any character) and "(" (an unterminated group, which    *)
(* re.compile rejects).                                                    *)
(***************************************************************************)
Lower(c) == CASE c = "A" -> "a" [] c = "B" -> "b" [] OTHER -> c

PatternError(pat) == \E j \in 1..Len(pat) : pat[j] = "("

CharMatches(p, c) == IF p = "." THEN TRUE ELSE Lower(p) = Lower(c)

contains(text, pat) ==
    \E i \in 0..(Len(text) - Len(pat)) :
        \A j \in 1..Len(pat) : CharMatches(pat[j], text[i + j])

(***************************************************************************)
(* One run of the script, lines 163-307.                                   *)
(***************************************************************************)
AllVendors == <<"A", "l", "l", " ", "V", "e", "n", "d", "o", "r", "s">>
All == <<"A", "l", "l">>
Unset == <<"unset">>

\* What a run that ends before the sidebar filters leaves behind.
EndedEarly(elements, how) ==
    [status |-> how, ui |-> elements, vendor_list |-> <<>>,
     serving_caps_raw |-> <<>>, search_query |-> Unset,
     serving_capacity_option |-> Unset, results_df |-> <<>>, cards |-> <<>>,
     row |-> NoRow, info |-> NoInfo]

\* Lines 163-176: title, caption, sidebar title, file uploader.
PageTop == <<"title", "caption", "sidebar.title", "sidebar.file_uploader">>

\* Line 188: sorted(df[VENDOR_NAME_COL].dropna().unique().tolist()).
\* (The tables of the model hold text or nothing in this column.)
vendor_list_of(d) ==
    sorted({v.s : v \in {w \in ColumnCells(d.rows, VENDOR_NAME_COL) : notna(w)}})

\* Lines 208-215: df[SERVING_CAP_COL].dropna().astype(str).unique(), sorted.
serving_caps_raw_of(d) ==
    sorted({str(v) : v \in {w \in ColumnCells(d.rows, SERVING_CAP_COL) : notna(w)}})

\* Line 239: select_dtypes(include=["object", "string"]).columns.
string_cols_of(d) == {c \in d.columns : dtype(d, c) = "object"}

\* Lines 241-247: the mask of one row, OR-ed over the string columns.
mask(d, i, query) ==
    \E col \in string_cols_of(d) : contains(str(d.rows[i][col]), query)

Indices(d) == [i \in 1..Len(d.rows) |-> i]

\* Variant of copy_of_df: advanced mode starting from the chosen vendor's rows.
copy_of_df_narrowed(d, chosen_vendor) ==
    IF chosen_vendor = AllVendors THEN Indices(d)
    ELSE SelectSeq(Indices(d),
                   LAMBDA i : d.rows[i][VENDOR_NAME_COL] = Text(chosen_vendor))

\* Line 235: results_df = df.copy(), every row of the table whatever the
\* "Vendor" selectbox holds.
copy_of_df(d, chosen_vendor) == Indices(d)

\* Lines 238-248: results_df after the global search.
after_search(d, kept, query) ==
    IF query # <<>> /\ string_cols_of(d) # {}
    THEN SelectSeq(kept, LAMBDA i : mask(d, i, query))
    ELSE kept

\* Variant of after_capacity: the selector matched as a substring.
after_capacity_substring(d, kept, option) ==
    IF option # All /\ SERVING_CAP_COL \in d.columns
    THEN SelectSeq(kept, LAMBDA i : contains(str(d.rows[i][SERVING_CAP_COL]), option))
    ELSE kept

\* Lines 251-254: the serving capacity filter.
after_capacity(d, kept, option) ==
    IF option # All /\ SERVING_CAP_COL \in d.columns
    THEN SelectSeq(kept, LAMBDA i : str(d.rows[i][SERVING_CAP_COL]) = option)
    ELSE kept

\* Lines 264-268 (and 297-300): the title of a vendor ("|" stands for the
\* middle dot).
header_text(fields) ==
    IF fields.vendor_code \notin {Empty, Dash}
    THEN Text(str(fields.vendor_code) \o <<" ", "|", " ">> \o str(fields.vendor_name))
    ELSE fields.vendor_name

\* Lines 262-274: one expander per row, until an extraction raises.
RECURSIVE expanders(_, _, _)
expanders(d, idxs, done) ==
    IF idxs = <<>> THEN [cards |-> done, raised |-> "no"]
    ELSE LET got == extract_vendor_info(d.rows[Head(idxs)])
         IN  IF got.raised # "no"
             THEN [cards |-> done, raised |-> got.raised]
             ELSE expanders(d, Tail(idxs),
                            Append(done, [index |-> Head(idxs),
                                          header |-> header_text(got.fields),
                                          fields |-> got.fields]))

RECURSIVE Repeat(_, _)
Repeat(e, n) == IF n = 0 THEN <<>> ELSE <<e>> \o Repeat(e, n - 1)

\* Lines 230-274.
advanced_mode(d, elements, vendors, chosen_vendor, typed, chosen) ==
    LET has_cap == SERVING_CAP_COL \in d.columns
        caps == IF has_cap THEN serving_caps_raw_of(d) ELSE <<>>
        query == typed
        option == IF has_cap THEN chosen ELSE All
        shown == elements \o <<"sidebar.text_input">>
                 \o (IF has_cap THEN <<"sidebar.selectbox.capacity">> ELSE <<>>)
                 \o <<"header">>
        base == [status |-> "complete", ui |-> shown, vendor_list |-> vendors,
                 serving_caps_raw |-> caps, search_query |-> query,
                 serving_capacity_option |-> option, results_df |-> <<>>,
                 cards |-> <<>>, row |-> NoRow, info |-> NoInfo]
    IN  IF query # <<>> /\ string_cols_of(d) # {} /\ PatternError(query)
        THEN [base EXCEPT !.status = "re.error"]
        ELSE LET results == after_capacity(
                                d, after_search(d, copy_of_df(d, chosen_vendor), query),
                                option)
                 loop == expanders(d, results, <<>>)
                 last == IF loop.raised = "no" THEN Len(loop.cards)
                         ELSE Len(loop.cards) + 1
             IN  IF results = <<>>
                 THEN [base EXCEPT !.ui = shown \o <<"write.count", "info">>]
                 ELSE [base EXCEPT
                         !.status = IF loop.raised = "no" THEN "complete"
                                    ELSE loop.raised,
                         !.ui = shown \o <<"write.count">>
                                \o Repeat("expander", Len(loop.cards)),
                         !.results_df = results,
                         !.cards = loop.cards,
                         !.row = d.rows[results[last]],
                         !.info = extract_vendor_info(d.rows[results[last]])]

\* Variant of iloc_0: the last matching row.
iloc_last(vendor_rows) == vendor_rows[Len(vendor_rows)]

\* Line 288: vendor_rows.iloc[0].
iloc_0(vendor_rows) == vendor_rows[1]

\* Lines 276-307.
basic_mode(d, elements, vendors, chosen_vendor) ==
    LET shown == elements \o <<"header">>
        base == [status |-> "complete", ui |-> shown, vendor_list |-> vendors,
                 serving_caps_raw |-> <<>>, search_query |-> <<>>,
                 serving_capacity_option |-> All, results_df |-> <<>>,
                 cards |-> <<>>, row |-> NoRow, info |-> NoInfo]
        vendor_rows == SelectSeq(Indices(d),
                          LAMBDA i : d.rows[i][VENDOR_NAME_COL] = Text(chosen_vendor))
    IN  IF chosen_vendor = AllVendors
        THEN [base EXCEPT !.ui = shown \o <<"write.prompt">>]
        ELSE IF vendor_rows = <<>>
        THEN [base EXCEPT !.ui = shown \o <<"warning">>]
        ELSE LET first == d.rows[iloc_0(vendor_rows)]
                 got == extract_vendor_info(first)
             IN  IF got.raised # "no"
                 THEN [base EXCEPT !.status = got.raised, !.row = first,
                                   !.info = got]
                 ELSE [base EXCEPT
                         !.ui = shown \o <<"summary", "owner box", "vendor box">>,
                         !.cards = <<[index |-> iloc_0(vendor_rows),
                                      header |-> header_text(got.fields),
                                      fields |-> got.fields]>>,
                         !.row = first, !.info = got]

\* Variant of import_error_halt: the run stops without the message.
import_error_unreported == EndedEarly(PageTop, "stopped")

\* Lines 52-60: st.error(...) and st.stop() inside load_vendor_data.
import_error_halt == EndedEarly(PageTop \o <<"error">>, "stopped")

\* The whole script.  `loaded` is how load_vendor_data ended for the file.
script(name, loaded, d, chosen_vendor, advanced, typed, chosen_cap) ==
    IF name = NoFile THEN EndedEarly(PageTop \o <<"info">>, "stopped")
    ELSE IF loaded = "ImportError" THEN import_error_halt
    ELSE IF loaded = "ParseError" THEN EndedEarly(PageTop, "ParseError")
    ELSE IF VENDOR_NAME_COL \notin d.columns
         THEN EndedEarly(PageTop \o <<"sidebar.header">>, "KeyError")
    ELSE LET vendors == vendor_list_of(d)
             elements == PageTop \o <<"sidebar.header", "sidebar.selectbox.vendor",
                                      "sidebar.toggle">>
         IN  IF advanced
             THEN advanced_mode(d, elements, vendors, chosen_vendor, typed,
                                chosen_cap)
             ELSE basic_mode(d, elements, vendors, chosen_vendor)

(***************************************************************************)
(* The tables a user may upload.                                           *)
(***************************************************************************)
DashboardCols == {VENDOR_NAME_COL, SERVING_CAP_COL, CUISINE_1_COL}

RawCells(col) ==
    CASE col = VENDOR_NAME_COL -> {NaN, Text(<<"a">>), Text(<<"B">>)}
      [] col = SERVING_CAP_COL -> {NaN, Whole(5), Whole(50), Whole(100)}
      [] col = CUISINE_1_COL -> {Text(<<"b">>), Whole(5)}

RawRows(cols) ==
    {r \in [cols -> UNION {RawCells(c) : c \in DashboardCols}] :
        \A c \in cols : r[c] \in RawCells(c)}

Extensions == {"csv", "xlsx", "xls"}

\* Tables of one or two of the three columns.
ColumnSets == SUBSET DashboardCols \ {{}, DashboardCols}

\* What may be typed into the search box.
Queries == {<<>>, <<"b">>, <<".">>, <<"n">>, <<"(">>, <<"5">>}

(***************************************************************************)
(* The dashboard: one action is one interaction and the run it triggers.   *)
(***************************************************************************)
\* Variant of df_after_filters: the filters applied to df itself.
df_filtered_in_place(d, results) ==
    IF results = <<>> THEN d
    ELSE [d EXCEPT !.rows = [i \in 1..Len(results) |-> d.rows[results[i]]]]

\* Lines 235-254 work on df.copy() and rebind results_df only: the table
\* the next run reads is the one this run read.
df_after_filters(d, results) == d

Ran(run) ==
    /\ status' = run.status
    /\ ui' = run.ui
    /\ vendor_list' = run.vendor_list
    /\ serving_caps_raw' = run.serving_caps_raw
    /\ search_query' = run.search_query
    /\ serving_capacity_option' = run.serving_capacity_option
    /\ results_df' = run.results_df
    /\ cards' = run.cards
    /\ row' = run.row
    /\ info' = run.info

Rendered(e) == \E i \in 1..Len(ui) : ui[i] = e

\* First run of a session: nothing uploaded, every widget at its default
\* (lines 189-193, 196, 200-204, 216-220).
Init ==
    /\ uploaded_file = NoFile
    /\ df = NoTable
    /\ selected_vendor = AllVendors
    /\ show_advanced = FALSE
    /\ text_input = <<>>
    /\ capacity_select = All
    /\ LET run == script(NoFile, "ok", NoTable, AllVendors, FALSE, <<>>, All)
       IN  /\ status = run.status
           /\ ui = run.ui
           /\ vendor_list = run.vendor_list
           /\ serving_caps_raw = run.serving_caps_raw
           /\ search_query = run.search_query
           /\ serving_capacity_option = run.serving_capacity_option
           /\ results_df = run.results_df
           /\ cards = run.cards
           /\ row = run.row
           /\ info = run.info

\* The user drops a file on the uploader (lines 172-183).
Upload ==
    /\ uploaded_file = NoFile
    /\ \E ext \in Extensions, padded \in BOOLEAN,
          cols \in ColumnSets, n \in 0..MaxRows :
         \E rows \in [1..n -> RawRows(cols)] :
           LET f == [ext |-> ext, padded |-> padded, columns |-> cols, rows |-> rows]
           IN  \E loaded \in LoadOutcomes(f) :
                 LET d == IF loaded = "ok" THEN load_vendor_data(f) ELSE NoTable
                 IN  /\ uploaded_file' = f.ext
                     /\ df' = d
                     /\ Ran(script(f.ext, loaded, d, selected_vendor, show_advanced,
                                   text_input, capacity_select))
    /\ UNCHANGED <<selected_vendor, show_advanced, text_input, capacity_select>>

\* The user removes the file: the run stops at line 180 and no filter
\* widget is drawn, so each starts from its default when drawn again.
ClearUpload ==
    /\ uploaded_file # NoFile
    /\ uploaded_file' = NoFile
    /\ df' = NoTable
    /\ selected_vendor' = AllVendors
    /\ show_advanced' = FALSE
    /\ text_input' = <<>>
    /\ capacity_select' = All
    /\ Ran(script(NoFile, "ok", NoTable, AllVendors, FALSE, <<>>, All))

\* The user picks another entry of the "Vendor" selectbox.
ChooseVendor ==
    /\ Rendered("sidebar.selectbox.vendor")
    /\ \E v \in {AllVendors} \cup Range(vendor_list) :
         /\ v # selected_vendor
         /\ selected_vendor' = v
         /\ LET run == script(uploaded_file, "ok", df, v, show_advanced,
                              text_input, capacity_select)
            IN  /\ Ran(run)
                /\ df' = df_after_filters(df, run.results_df)
    /\ UNCHANGED <<uploaded_file, show_advanced, text_input, capacity_select>>

\* The user flips "Advanced filters".  The search box and the capacity
\* selectbox exist only while it is on (lines 199-220) and are drawn with
\* their defaults each time it goes on.
ToggleAdvanced ==
    /\ Rendered("sidebar.toggle")
    /\ show_advanced' = ~show_advanced
    /\ text_input' = <<>>
    /\ capacity_select' = All
    /\ LET run == script(uploaded_file, "ok", df, selected_vendor, ~show_advanced,
                         text_input', capacity_select')
       IN  /\ Ran(run)
           /\ df' = df_after_filters(df, run.results_df)
    /\ UNCHANGED <<uploaded_file, selected_vendor>>

\* The user edits the search box.
TypeSearch ==
    /\ Rendered("sidebar.text_input")
    /\ \E q \in Queries :
         /\ q # text_input
         /\ text_input' = q
         /\ LET run == script(uploaded_file, "ok", df, selected_vendor,
                              show_advanced, q, capacity_select)
            IN  /\ Ran(run)
                /\ df' = df_after_filters(df, run.results_df)
    /\ UNCHANGED <<uploaded_file, selected_vendor, show_advanced, capacity_select>>

\* The user picks another entry of the "Serving capacity" selectbox.
ChooseCapacity ==
    /\ Rendered("sidebar.selectbox.capacity")
    /\ \E c \in {All} \cup Range(serving_caps_raw) :
         /\ c # capacity_select
         /\ capacity_select' = c
         /\ LET run == script(uploaded_file, "ok", df, selected_vendor,
                              show_advanced, text_input, c)
            IN  /\ Ran(run)
                /\ df' = df_after_filters(df, run.results_df)
    /\ UNCHANGED <<uploaded_file, selected_vendor, show_advanced, text_input>>

Next ==
    \/ Upload
    \/ ClearUpload
    \/ ChooseVendor
    \/ ToggleAdvanced
    \/ TypeSearch
    \/ ChooseCapacity

Spec == Init /\ [][Next]_vars

(***************************************************************************)
(* Extractor harness: extract_vendor_info applied to one row that holds    *)
(* any set of at most MaxPresent schema columns, each cell missing, the    *)
(* empty text, a text or a number.                                         *)
(***************************************************************************)
CellKinds == {"nan", "empty", "text", "int"}

ColText(col) ==
    CASE col = AREA_COL -> <<"A">>
      [] col = AREA_1_COL -> <<"B">>
      [] col = CITY_COL -> <<"C">>
      [] col = OTHER_CITY_COL -> <<"D">>
      [] col = STATE_COL -> <<"E">>
      [] col = CUISINE_1_COL -> <<"I", "t">>
      [] col = CUISINE_2_COL -> <<"M", "x">>
      [] OTHER -> <<"x">>

Cell(col, kind) ==
    CASE kind = "nan" -> NaN
      [] kind = "empty" -> Empty
      [] kind = "text" -> Text(ColText(col))
      [] kind = "int" -> Whole(7)

RECURSIVE ColumnSetsUpTo(_)
ColumnSetsUpTo(k) ==
    IF k = 0 THEN {{}}
    ELSE LET smaller == ColumnSetsUpTo(k - 1)
         IN  smaller \cup {T \cup {c} : T \in smaller, c \in SchemaCols}

HarnessRow(S, kinds) == [c \in S |-> Cell(c, kinds[c])]

InitExtract ==
    /\ \E S \in ColumnSetsUpTo(MaxPresent) :
          \E kinds \in [S -> CellKinds] : row = HarnessRow(S, kinds)
    /\ info = NoInfo
    /\ uploaded_file = NoFile
    /\ df = NoTable
    /\ selected_vendor = AllVendors
    /\ show_advanced = FALSE
    /\ text_input = <<>>
    /\ capacity_select = All
    /\ status = "stopped"
    /\ ui = <<>>
    /\ vendor_list = <<>>
    /\ serving_caps_raw = <<>>
    /\ search_query = Unset
    /\ serving_capacity_option = Unset
    /\ results_df = <<>>
    /\ cards = <<>>

ExtractStep ==
    /\ info = NoInfo
    /\ info' = extract_vendor_info(row)
    /\ UNCHANGED <<uploaded_file, df, selected_vendor, show_advanced, text_input,
                   capacity_select, status, ui, vendor_list, serving_caps_raw,
                   search_query, serving_capacity_option, results_df, cards, row>>

SpecExtract == InitExtract /\ [][ExtractStep]_vars

(***************************************************************************)
(* Properties.                                                             *)
(***************************************************************************)
FilterElements ==
    {"sidebar.header", "sidebar.selectbox.vendor", "sidebar.toggle",
     "sidebar.text_input", "sidebar.selectbox.capacity"}
ResultElements ==
    {"header", "write.count", "info", "expander", "write.prompt", "warning",
     "summary", "owner box", "vendor box"}

Loaded == uploaded_file # NoFile /\ df # NoTable

\* The run reached the main area in advanced mode and computed results_df.
AdvancedResults ==
    /\ Loaded
    /\ show_advanced
    /\ Rendered("write.count")

\* The run reached the main area in basic mode.
BasicRun == Loaded /\ ~show_advanced /\ Rendered("header")

Increasing(s) == \A i, j \in 1..Len(s) : i < j => s[i] < s[j]

\* C1: with any recognised column absent from the loaded table, a run never
\* ends in the fatal error of a lookup of an absent column.
C1_MissingColumnNeverFatal ==
    (Loaded /\ SchemaCols \ df.columns # {}) => status # "KeyError"

\* C2: the text search keeps a row exactly when the query is empty or is,
\* case folded, a literal substring of the text of a present value of one of
\* the textual columns.
LiteralSubstring(text, q) ==
    \E i \in 0..(Len(text) - Len(q)) :
        \A j \in 1..Len(q) : Lower(q[j]) = Lower(text[i + j])

LiterallyKept(i, q) ==
    \/ q = <<>>
    \/ \E c \in df.columns :
         /\ dtype(df, c) = "object"
         /\ notna(df.rows[i][c])
         /\ LiteralSubstring(str(df.rows[i][c]), q)

C2_LiteralSubstringSearch ==
    (Loaded /\ show_advanced /\ Rendered("sidebar.text_input")
        /\ serving_capacity_option = All)
    => results_df = SelectSeq(Indices(df), LAMBDA i : LiterallyKept(i, search_query))

\* C3: the rows advanced mode reports (results_df, counted at line 256) are,
\* in table order, exactly the rows the text search keeps whose serving
\* capacity, as text, equals the selector (every row the search keeps when the
\* selector is "All" or the table has no serving capacity column); a run that
\* completes draws one card for each of them, in that order.
CapacityCriterion(i) ==
    \/ serving_capacity_option = All
    \/ SERVING_CAP_COL \notin df.columns
    \/ str(df.rows[i][SERVING_CAP_COL]) = serving_capacity_option

SearchKept == Range(after_search(df, Indices(df), search_query))

C3_ConjunctiveFilter ==
    AdvancedResults
    => /\ Increasing(results_df)
       /\ \A i \in 1..Len(df.rows) :
            i \in Range(results_df) <=> (i \in SearchKept /\ CapacityCriterion(i))
       /\ status = "complete"
          => [k \in 1..Len(cards) |-> cards[k].index] = results_df

C3_Witness ==
    /\ AdvancedResults
    /\ status = "complete"
    /\ search_query # <<>>
    /\ serving_capacity_option = <<"5">>
    /\ \E i \in SearchKept : str(df.rows[i][SERVING_CAP_COL]) = <<"5", "0">>
    /\ \E i \in 1..Len(df.rows) : i \notin SearchKept /\ CapacityCriterion(i)

\* C4: extract_vendor_info returns, without raising, a record with the ten
\* fixed keys.
FixedKeys ==
    {"vendor_code", "vendor_name", "owner_name", "phone", "email", "location",
     "category", "cuisine_text", "service_model", "serving_capacity"}

C4_ExtractNeverRaises ==
    info # NoInfo => info.raised = "no" /\ DOMAIN info.fields = FixedKeys

\* C5: the location is the text of the present values of Area, Area 1, City,
\* Other City 1, State in that order joined by ", ", and "-" when there is
\* none; a value is present when its column exists and it is neither missing
\* nor empty.
RECURSIVE PresentTexts(_, _)
PresentTexts(r, cols) ==
    IF cols = <<>> THEN <<>>
    ELSE (IF Head(cols) \in DOMAIN r /\ r[Head(cols)] \notin {NaN, Empty}
          THEN <<str(r[Head(cols)])>> ELSE <<>>)
         \o PresentTexts(r, Tail(cols))

C5_LocationOfPresentValues ==
    (info # NoInfo /\ info.raised = "no")
    => info.fields.location =
         (IF PresentTexts(row, LocationCols) = <<>> THEN Dash
          ELSE Text(Join(<<",", " ">>, PresentTexts(row, LocationCols))))

\* C6: in basic mode with a vendor chosen, the row used is the first row of
\* the table whose vendor name equals the choice and the record shown is the
\* one extracted from it; with no such row the "no data" warning is shown and
\* the run completes.
Matching == {i \in 1..Len(df.rows) : df.rows[i][VENDOR_NAME_COL] = Text(selected_vendor)}

FirstMatching == CHOOSE i \in Matching : \A j \in Matching : i <= j

C6_FirstMatchingRow ==
    (BasicRun /\ selected_vendor # AllVendors)
    => IF Matching = {}
       THEN status = "complete" /\ Rendered("warning") /\ cards = <<>>
       ELSE /\ ~Rendered("warning")
            /\ row = df.rows[FirstMatching]
            /\ info = extract_vendor_info(df.rows[FirstMatching])
            /\ status = "complete"
               => /\ Len(cards) = 1
                  /\ cards[1].index = FirstMatching
                  /\ cards[1].fields = info.fields

C6_Witness ==
    /\ BasicRun
    /\ selected_vendor # AllVendors
    /\ status = "complete"
    /\ Cardinality(Matching) = 2
    /\ \E i, j \in Matching : df.rows[i] # df.rows[j]
    /\ cards[1].index = 1

LoadHalted == uploaded_file # NoFile /\ df = NoTable /\ status # "ParseError"

C8_TableReadOnly ==
    [][(Loaded /\ uploaded_file' # NoFile) => df' = df]_vars

C8_Witness ==
    /\ AdvancedResults
    /\ status = "complete"
    /\ cards # <<>>
    /\ Len(results_df) < Len(df.rows)
    /\ search_query # <<>>
    /\ serving_capacity_option # All

\* C9: the capacity selector offers the distinct non-missing serving
\* capacities once each, in ascending order of their values.
CapacityValue(option) ==
    (CHOOSE v \in ColumnCells(df.rows, SERVING_CAP_COL) :
        notna(v) /\ str(v) = option).n

C9_CapacitiesAscendingByValue ==
    (Loaded /\ Rendered("sidebar.selectbox.capacity"))
    => /\ Range(serving_caps_raw) =
            {str(v) : v \in {w \in ColumnCells(df.rows, SERVING_CAP_COL) : notna(w)}}
       /\ \A i, j \in 1..Len(serving_caps_raw) :
            i < j => CapacityValue(serving_caps_raw[i]) < CapacityValue(serving_caps_raw[j])

\* C10: with the toggle off the run has an empty query and the selector
\* "All", and is the same run whatever the search box and capacity selector
\* would hold; with the toggle on the rows shown and their count are the same
\* for every entry of the vendor selector.
CapacityOptions ==
    {All} \cup (IF SERVING_CAP_COL \in df.columns
                THEN Range(serving_caps_raw_of(df)) ELSE {})

ThisRun ==
    [status |-> status, ui |-> ui, vendor_list |-> vendor_list,
     serving_caps_raw |-> serving_caps_raw, search_query |-> search_query,
     serving_capacity_option |-> serving_capacity_option,
     results_df |-> results_df, cards |-> cards, row |-> row, info |-> info]

C10_ModesIndependent ==
    (Loaded /\ Rendered("sidebar.toggle"))
    => IF ~show_advanced
       THEN /\ search_query = <<>>
            /\ serving_capacity_option = All
            /\ \A q \in Queries, c \in CapacityOptions :
                 script(uploaded_file, "ok", df, selected_vendor, FALSE, q, c) = ThisRun
       ELSE \A v \in {AllVendors} \cup Range(vendor_list) :
              LET other == script(uploaded_file, "ok", df, v, TRUE, text_input,
                                  capacity_select)
              IN  /\ other.results_df = results_df
                  /\ other.cards = cards
                  /\ other.ui = ui

C10_Witness ==
    /\ AdvancedResults
    /\ selected_vendor # AllVendors
    /\ results_df # <<>>
    /\ \E i \in Range(results_df) : df.rows[i][VENDOR_NAME_COL] # Text(selected_vendor)
    /\ text_input # <<>>

====
